---- MODULE Spec2Model ----
(***************************************************************************)
(* Bolt group analysis calculator: the capacity catalog (boltData.ts), the *)
(* evaluation effect, input handler and save handler of App, and the       *)
(* per-bolt force computation of the BoltPattern view.                     *)
(*                                                                         *)
(* JavaScript numbers are modelled as exact real numbers.  Every value the *)
(* program computes from the modelled inputs lies in the field Q(sqrt 2)   *)
(* (cos and sin of the multiples of pi/4 are 0, +-1 and +-sqrt(2)/2) or is *)
(* the square root of such a value; floating-point rounding is not         *)
(* modelled.  NaN, which the view produces for a single bolt (0/0), is a   *)
(* value of its own.                                                       *)
(***************************************************************************)
EXTENDS Integers, Sequences, FiniteSets, TLC

(***************************************************************************)
(* Integer helpers.                                                        *)
(***************************************************************************)
Abs(n) == IF n < 0 THEN -n ELSE n

Sgn(n) == IF n < 0 THEN -1 ELSE IF n = 0 THEN 0 ELSE 1

Min(a, b) == IF a <= b THEN a ELSE b

Max(a, b) == IF a >= b THEN a ELSE b

RECURSIVE GCD(_, _)
GCD(a, b) == IF b = 0 THEN a ELSE GCD(b, a % b)

RECURSIVE Val(_, _)
Val(n, f) == IF n % f = 0 THEN 1 + Val(n \div f, f) ELSE 0

RECURSIVE Pow(_, _)
Pow(f, k) == IF k = 0 THEN 1 ELSE f * Pow(f, k - 1)

(***************************************************************************)
(* A number is the record [p, q, d, e2, e5] standing for                   *)
(*      (p + q * sqrt 2) / d * 2^e2 * 5^e5                                 *)
(* in canonical form: d > 0, gcd(p, q, d) = 1, and neither gcd(p, q) nor d *)
(* divisible by 2 or 5 (those factors live in the exponents, which keeps   *)
(* the 1000 and 1e6 unit factors out of the mantissa).  Equal reals have   *)
(* equal records.  d = 0 marks NaN.                                        *)
(***************************************************************************)
NaN == [p |-> 0, q |-> 0, d |-> 0, e2 |-> 0, e5 |-> 0]

Zero == [p |-> 0, q |-> 0, d |-> 1, e2 |-> 0, e5 |-> 0]

IsNaN(x) == x.d = 0

IsZero(x) == x.d # 0 /\ x.p = 0 /\ x.q = 0

IsRational(x) == x.d # 0 /\ x.q = 0

\* The canonical record of (p + q * sqrt 2) / d * 2^e2 * 5^e5, d > 0.  The
\* steps: g0 = gcd(p, q); g = gcd(p, q, d) is divided out; pg = g0 / g and
\* d / g give up their powers of 2 (k2, m2) and of 5 (k5, m5).
NormReduced(p, q, d, e2, e5, k2, k5, m2, m5) ==
    [p  |-> p \div (Pow(2, k2) * Pow(5, k5)),
     q  |-> q \div (Pow(2, k2) * Pow(5, k5)),
     d  |-> d \div (Pow(2, m2) * Pow(5, m5)),
     e2 |-> e2 + k2 - m2,
     e5 |-> e5 + k5 - m5]

NormCoprime(p, q, d, e2, e5, pg) ==
    NormReduced(p, q, d, e2, e5, Val(pg, 2), Val(pg, 5), Val(d, 2), Val(d, 5))

NormBy(p, q, d, e2, e5, g0, g) ==
    NormCoprime(p \div g, q \div g, d \div g, e2, e5, g0 \div g)

NormGcd(p, q, d, e2, e5, g0) == NormBy(p, q, d, e2, e5, g0, GCD(g0, d))

Norm(p, q, d, e2, e5) ==
    IF p = 0 /\ q = 0 THEN Zero
    ELSE NormGcd(p, q, d, e2, e5, GCD(Abs(p), Abs(q)))

Num(n) == Norm(n, 0, 1, 0, 0)

\* The decimal literal n / 10^k, e.g. Dec(167, 1) for 16.7.
Dec(n, k) == Norm(n, 0, 1, -k, -k)

\* sqrt(2)/2, the value of cos and sin at the odd multiples of pi/4.
HalfRoot2 == Norm(0, 1, 1, -1, 0)

NNeg(x) == IF IsNaN(x) THEN NaN ELSE [x EXCEPT !.p = -x.p, !.q = -x.q]

\* x + y over the common exponents e2, e5 and the common denominator
\* x.d * y.d / g: mx and my are the factors the numerators are raised by.
NAddScaled(x, y, e2, e5, g, mx, my) ==
    Norm(x.p * mx + y.p * my, x.q * mx + y.q * my, (x.d \div g) * y.d, e2, e5)

NAddAt(x, y, e2, e5, g) ==
    NAddScaled(x, y, e2, e5, g,
               Pow(2, x.e2 - e2) * Pow(5, x.e5 - e5) * (y.d \div g),
               Pow(2, y.e2 - e2) * Pow(5, y.e5 - e5) * (x.d \div g))

NAdd(x, y) ==
    IF IsNaN(x) \/ IsNaN(y) THEN NaN
    ELSE IF IsZero(x) THEN y
    ELSE IF IsZero(y) THEN x
    ELSE NAddAt(x, y, Min(x.e2, y.e2), Min(x.e5, y.e5), GCD(x.d, y.d))

NSub(x, y) == NAdd(x, NNeg(y))

\* x * y, after the numerator of each is reduced against the denominator of
\* the other (hx = gcd(x.p, x.q, y.d), hy = gcd(y.p, y.q, x.d)).
NMulParts(xp, xq, xd, yp, yq, yd, e2, e5) ==
    Norm(xp * yp + 2 * xq * yq, xp * yq + xq * yp, xd * yd, e2, e5)

NMulBy(x, y, hx, hy) ==
    NMulParts(x.p \div hx, x.q \div hx, x.d \div hy,
              y.p \div hy, y.q \div hy, y.d \div hx,
              x.e2 + y.e2, x.e5 + y.e5)

NMul(x, y) ==
    IF IsNaN(x) \/ IsNaN(y) THEN NaN
    ELSE NMulBy(x, y, GCD(GCD(Abs(x.p), Abs(x.q)), y.d),
                GCD(GCD(Abs(y.p), Abs(y.q)), x.d))

\* x / y for the divisors of the program, which are all rational.  A zero
\* divisor occurs only under a zero dividend (the polar moment of a single
\* bolt at the origin): 0/0 is NaN.
NDiv(x, y) ==
    CASE IsNaN(x) \/ IsNaN(y) -> NaN
      [] IsRational(y) /\ y.p # 0 ->
            NMul(x, [p |-> Sgn(y.p) * y.d, q |-> 0, d |-> Abs(y.p),
                     e2 |-> -y.e2, e5 |-> -y.e5])
      [] IsZero(y) /\ IsZero(x) -> NaN

NSq(x) == NMul(x, x)

(***************************************************************************)
(* Wide naturals: little-endian sequences of base-10000 digits without     *)
(* leading zero digits (zero is the empty sequence).  They carry the few   *)
(* products that exceed 32-bit machine integers: the sign test             *)
(* of p + q * sqrt 2 and the combined ratio and stresses.                  *)
(***************************************************************************)
RECURSIVE WNat(_)
WNat(n) == IF n = 0 THEN <<>> ELSE <<n % 10000>> \o WNat(n \div 10000)

WHead(a) == IF a = <<>> THEN 0 ELSE Head(a)

WTail(a) == IF a = <<>> THEN <<>> ELSE Tail(a)

RECURSIVE WAddC(_, _, _)
WAddC(a, b, c) ==
    IF a = <<>> /\ b = <<>> THEN (IF c = 0 THEN <<>> ELSE <<c>>)
    ELSE LET s == WHead(a) + WHead(b) + c
         IN  <<s % 10000>> \o WAddC(WTail(a), WTail(b), s \div 10000)

WAdd(a, b) == WAddC(a, b, 0)

RECURSIVE WTrim(_)
WTrim(a) ==
    IF a = <<>> THEN <<>>
    ELSE IF a[Len(a)] = 0 THEN WTrim(SubSeq(a, 1, Len(a) - 1))
    ELSE a

\* a - b for a >= b, with borrow c.
RECURSIVE WSubC(_, _, _)
WSubC(a, b, c) ==
    IF a = <<>> THEN <<>>
    ELSE LET s == Head(a) - WHead(b) - c
         IN  <<IF s < 0 THEN s + 10000 ELSE s>>
                \o WSubC(Tail(a), WTail(b), IF s < 0 THEN 1 ELSE 0)

WSub(a, b) == WTrim(WSubC(a, b, 0))

\* a * m + c for a single digit m (0 <= m < 10000).
RECURSIVE WMulDigit(_, _, _)
WMulDigit(a, m, c) ==
    IF a = <<>> THEN (IF c = 0 THEN <<>> ELSE <<c>>)
    ELSE LET s == Head(a) * m + c
         IN  <<s % 10000>> \o WMulDigit(Tail(a), m, s \div 10000)

RECURSIVE WMul(_, _)
WMul(a, b) ==
    IF a = <<>> \/ b = <<>> THEN <<>>
    ELSE LET rest == WMul(a, Tail(b))
         IN  WAdd(IF Head(b) = 0 THEN <<>> ELSE WMulDigit(a, Head(b), 0),
                  IF rest = <<>> THEN <<>> ELSE <<0>> \o rest)

\* -1, 0 or 1 as a < b, a = b or a > b.
RECURSIVE WCmpFrom(_, _, _)
WCmpFrom(a, b, i) ==
    IF i = 0 THEN 0
    ELSE IF a[i] < b[i] THEN -1
    ELSE IF a[i] > b[i] THEN 1
    ELSE WCmpFrom(a, b, i - 1)

WCmp(a, b) ==
    IF Len(a) < Len(b) THEN -1
    ELSE IF Len(a) > Len(b) THEN 1
    ELSE WCmpFrom(a, b, Len(a))

RECURSIVE WPow(_, _)
WPow(f, k) == IF k <= 0 THEN <<1>> ELSE WMulDigit(WPow(f, k - 1), f, 0)

(***************************************************************************)
(* Wide integers [s, m]: sign s in {-1, 0, 1} and magnitude m.             *)
(***************************************************************************)
ZInt(n) == [s |-> Sgn(n), m |-> WNat(Abs(n))]

ZNeg(a) == [s |-> -a.s, m |-> a.m]

ZAdd(a, b) ==
    IF a.s = 0 THEN b
    ELSE IF b.s = 0 THEN a
    ELSE IF a.s = b.s THEN [s |-> a.s, m |-> WAdd(a.m, b.m)]
    ELSE LET c == WCmp(a.m, b.m)
         IN  IF c = 0 THEN [s |-> 0, m |-> <<>>]
             ELSE IF c > 0 THEN [s |-> a.s, m |-> WSub(a.m, b.m)]
             ELSE [s |-> b.s, m |-> WSub(b.m, a.m)]

ZMul(a, b) == [s |-> a.s * b.s, m |-> WMul(a.m, b.m)]

\* The sign of p + q * sqrt 2 for wide integers p and q.
ZSignRoot2(p, q) ==
    IF q.s = 0 THEN p.s
    ELSE IF p.s = 0 \/ p.s = q.s THEN q.s
    ELSE IF WCmp(WMul(p.m, p.m), WMulDigit(WMul(q.m, q.m), 2, 0)) > 0 THEN p.s
    ELSE q.s

(***************************************************************************)
(* Order on the numbers.  A comparison with NaN is false, as in JavaScript.*)
(***************************************************************************)
NSign(x) == ZSignRoot2(ZInt(x.p), ZInt(x.q))

NLe(x, y) == ~IsNaN(x) /\ ~IsNaN(y) /\ NSign(NSub(y, x)) >= 0

\* Math.max of two values: NaN when either is NaN.
MathMax(x, y) ==
    IF IsNaN(x) \/ IsNaN(y) THEN NaN ELSE IF NLe(x, y) THEN y ELSE x

\* Math.abs.
MathAbs(x) == IF IsNaN(x) THEN NaN ELSE IF NSign(x) < 0 THEN NNeg(x) ELSE x

(***************************************************************************)
(* Wide numbers [P, Q, D]: (P + Q * sqrt 2) / D with wide integers P, Q    *)
(* and a wide natural D > 0, not reduced: equality of values is WqEq.      *)
(***************************************************************************)
ZScale(z, w) == [s |-> IF w = <<>> THEN 0 ELSE z.s, m |-> WMul(z.m, w)]

WqOf(x) ==
    LET up == WMul(WPow(2, x.e2), WPow(5, x.e5))
        dn == WMul(WPow(2, -x.e2), WPow(5, -x.e5))
    IN  [P |-> ZScale(ZInt(x.p), up), Q |-> ZScale(ZInt(x.q), up),
         D |-> WMul(WNat(x.d), dn)]

WqAdd(a, b) ==
    [P |-> ZAdd(ZScale(a.P, b.D), ZScale(b.P, a.D)),
     Q |-> ZAdd(ZScale(a.Q, b.D), ZScale(b.Q, a.D)),
     D |-> WMul(a.D, b.D)]

WqNeg(a) == [P |-> ZNeg(a.P), Q |-> ZNeg(a.Q), D |-> a.D]

WqMul(a, b) ==
    [P |-> ZAdd(ZMul(a.P, b.P), ZScale(ZMul(a.Q, b.Q), <<2>>)),
     Q |-> ZAdd(ZMul(a.P, b.Q), ZMul(a.Q, b.P)),
     D |-> WMul(a.D, b.D)]

WqSign(a) == ZSignRoot2(a.P, a.Q)

WqLe(a, b) == WqSign(WqAdd(b, WqNeg(a))) >= 0

WqEq(a, b) == WqSign(WqAdd(b, WqNeg(a))) = 0

\* 1 / y for a rational y # 0.
NRecip(y) == NDiv(Num(1), y)

(***************************************************************************)
(* Square roots.  Math.sqrt(r) is kept as its radicand: [rad |-> r] stands *)
(* for sqrt(r), r >= 0 or NaN.  Roots are compared by their radicands.     *)
(***************************************************************************)
MathSqrt(r) == [rad |-> r]

\* sqrt(r) / c for a rational c > 0.
RootDiv(s, c) == [rad |-> NDiv(s.rad, NSq(c))]

RootMax(s, t) == [rad |-> MathMax(s.rad, t.rad)]

\* (sqrt(r) * c)^2 and sqrt(r) * c as wide values, for a rational c > 0.
WRootScaledSq(s, c) == WqMul(WqOf(s.rad), WqOf(NSq(c)))

WRootScaled(s, c) == [rad |-> WRootScaledSq(s, c)]

(***************************************************************************)
(* The state of the program: the state of the App component and the        *)
(* catalog array of boltData.ts.                                           *)
(***************************************************************************)
VARIABLES
    inputs,             \* useState: the form values
    results,            \* useState: the displayed result
    savedCalculations,  \* useState: the saved history
    error,              \* useState: the error message, "null" for null
    availableSizes,     \* useState: the options of the size selector
    pc,                 \* "effects": a render with new inputs is committed and
                        \* its effects are pending; "idle": waiting for an event
    effectGrade,        \* the boltGrade the grade effect last ran with ("" before mount)
    evalInputs,         \* history: the inputs of the latest run of the evaluation effect
    lastSuccess,        \* history: the record of the latest setResults call
    changes,            \* history: the number of input events so far
    catalog,            \* boltData.ts: the module-level array boltData
    calls               \* history: the accessor calls made on the catalog from
                        \* outside the App, each with its arguments and its value

vars == <<inputs, results, savedCalculations, error, availableSizes, pc,
          effectGrade, evalInputs, lastSuccess, changes, catalog, calls>>

(***************************************************************************)
(* boltData.ts: the capacity catalog and its three accessors.              *)
(***************************************************************************)
\* Fault variant: the columns given in tenths are taken as whole numbers.
BoltInTenths(grade, size, phiVf10, phiNtf10, area10, fuf) ==
    [grade |-> grade, size |-> size, phiVf |-> Num(phiVf10),
     phiNtf |-> Num(phiNtf10), tensileArea |-> Num(area10),
     fuf |-> Num(fuf)]

\* One catalog record; the three decimal columns are given in tenths.
Bolt(grade, size, phiVf10, phiNtf10, area10, fuf) ==
    [grade |-> grade, size |-> size, phiVf |-> Dec(phiVf10, 1),
     phiNtf |-> Dec(phiNtf10, 1), tensileArea |-> Dec(area10, 1),
     fuf |-> Num(fuf)]

\* Fault variant: the M22 row of Grade 10.9 is entered as a second M20 row.
boltDataMistyped ==
    << Bolt("Grade 4.6", "M12", 167, 270, 843, 400),
       Bolt("Grade 4.6", "M16", 311, 501, 1567, 400),
       Bolt("Grade 4.6", "M20", 486, 783, 2448, 400),
       Bolt("Grade 4.6", "M22", 602, 971, 3034, 400),
       Bolt("Grade 4.6", "M24", 699, 1128, 3525, 400),
       Bolt("Grade 4.6", "M27", 911, 1470, 4594, 400),
       Bolt("Grade 4.6", "M30", 1112, 1794, 5606, 400),
       Bolt("Grade 4.6", "M36", 1620, 2614, 8167, 400),
       Bolt("Grade 8.8", "M12", 347, 560, 843, 830),
       Bolt("Grade 8.8", "M16", 645, 1040, 1567, 830),
       Bolt("Grade 8.8", "M20", 1008, 1625, 2448, 830),
       Bolt("Grade 8.8", "M22", 1249, 2015, 3034, 830),
       Bolt("Grade 8.8", "M24", 1451, 2341, 3525, 830),
       Bolt("Grade 8.8", "M27", 1891, 3050, 4594, 830),
       Bolt("Grade 8.8", "M30", 2308, 3722, 5606, 830),
       Bolt("Grade 8.8", "M36", 3362, 5423, 8167, 830),
       Bolt("Grade 10.9", "M12", 431, 694, 843, 1030),
       Bolt("Grade 10.9", "M16", 800, 1291, 1567, 1030),
       Bolt("Grade 10.9", "M20", 1251, 2017, 2448, 1030),
       Bolt("Grade 10.9", "M20", 1550, 2500, 3034, 1030),
       Bolt("Grade 10.9", "M24", 1801, 2905, 3525, 1030),
       Bolt("Grade 10.9", "M27", 2347, 3786, 4594, 1030),
       Bolt("Grade 10.9", "M30", 2864, 4619, 5606, 1030),
       Bolt("Grade 10.9", "M36", 4172, 6730, 8167, 1030) >>

boltData ==
    << Bolt("Grade 4.6", "M12", 167, 270, 843, 400),
       Bolt("Grade 4.6", "M16", 311, 501, 1567, 400),
       Bolt("Grade 4.6", "M20", 486, 783, 2448, 400),
       Bolt("Grade 4.6", "M22", 602, 971, 3034, 400),
       Bolt("Grade 4.6", "M24", 699, 1128, 3525, 400),
       Bolt("Grade 4.6", "M27", 911, 1470, 4594, 400),
       Bolt("Grade 4.6", "M30", 1112, 1794, 5606, 400),
       Bolt("Grade 4.6", "M36", 1620, 2614, 8167, 400),
       Bolt("Grade 8.8", "M12", 347, 560, 843, 830),
       Bolt("Grade 8.8", "M16", 645, 1040, 1567, 830),
       Bolt("Grade 8.8", "M20", 1008, 1625, 2448, 830),
       Bolt("Grade 8.8", "M22", 1249, 2015, 3034, 830),
       Bolt("Grade 8.8", "M24", 1451, 2341, 3525, 830),
       Bolt("Grade 8.8", "M27", 1891, 3050, 4594, 830),
       Bolt("Grade 8.8", "M30", 2308, 3722, 5606, 830),
       Bolt("Grade 8.8", "M36", 3362, 5423, 8167, 830),
       Bolt("Grade 10.9", "M12", 431, 694, 843, 1030),
       Bolt("Grade 10.9", "M16", 800, 1291, 1567, 1030),
       Bolt("Grade 10.9", "M20", 1251, 2017, 2448, 1030),
       Bolt("Grade 10.9", "M22", 1550, 2500, 3034, 1030),
       Bolt("Grade 10.9", "M24", 1801, 2905, 3525, 1030),
       Bolt("Grade 10.9", "M27", 2347, 3786, 4594, 1030),
       Bolt("Grade 10.9", "M30", 2864, 4619, 5606, 1030),
       Bolt("Grade 10.9", "M36", 4172, 6730, 8167, 1030) >>

\* Array.prototype.includes.
Includes(seq, v) == \E i \in 1..Len(seq) : seq[i] = v

\* Array.from(new Set(...)): the first occurrence of each value, in order.
RECURSIVE Distinct(_)
Distinct(seq) ==
    IF seq = <<>> THEN <<>>
    ELSE LET front == Distinct(SubSeq(seq, 1, Len(seq) - 1))
             last  == seq[Len(seq)]
         IN  IF Includes(front, last) THEN front ELSE Append(front, last)

\* Fault variant: the grades are not passed through a Set.
getBoltGradesRepeated == [i \in 1..Len(catalog) |-> catalog[i].grade]

getBoltGrades == Distinct([i \in 1..Len(catalog) |-> catalog[i].grade])

\* Array.prototype.map(bolt => bolt.size).
SizesOf(bolts) == [i \in 1..Len(bolts) |-> bolts[i].size]

\* Fault variant: the records are not filtered by grade.
getBoltSizesOfAll(grade) == SizesOf(catalog)

getBoltSizes(grade) == SizesOf(SelectSeq(catalog, LAMBDA bolt : bolt.grade = grade))

\* What Array.prototype.find returns when no element matches.
Undefined == [undefined |-> TRUE]

IsUndefined(v) == "undefined" \in DOMAIN v

\* Array.prototype.find with the predicate of getBoltProperties: the first
\* record from index i on that carries the grade and the size.
RECURSIVE Find(_, _, _, _)
Find(bolts, grade, size, i) ==
    IF i > Len(bolts) THEN Undefined
    ELSE IF bolts[i].grade = grade /\ bolts[i].size = size THEN bolts[i]
    ELSE Find(bolts, grade, size, i + 1)

\* Fault variant: the lookup matches on the grade alone.
RECURSIVE FindGrade(_, _, _)
FindGrade(bolts, grade, i) ==
    IF i > Len(bolts) THEN Undefined
    ELSE IF bolts[i].grade = grade THEN bolts[i]
    ELSE FindGrade(bolts, grade, i + 1)

\* Fault variant: the lookup matches on the size alone.
RECURSIVE FindSize(_, _, _)
FindSize(bolts, size, i) ==
    IF i > Len(bolts) THEN Undefined
    ELSE IF bolts[i].size = size THEN bolts[i]
    ELSE FindSize(bolts, size, i + 1)

getBoltPropertiesBySize(grade, size) == FindSize(catalog, size, 1)

getBoltPropertiesByGrade(grade, size) == FindGrade(catalog, grade, 1)

getBoltProperties(grade, size) == Find(catalog, grade, size, 1)

\* Fault variant: the search takes the first record off the array (shift()).
Shifted(bolts) == Tail(bolts)

\* The array after map, filter, find or a Set was built from it: these read
\* the array and leave it as it is.
ReadOnly(bolts) == bolts

(***************************************************************************)
(* App: bolt layout (calculateBoltLayout).                                 *)
(***************************************************************************)
\* Math.cos and Math.sin of i * (2 * Math.PI / n), for the bolt counts whose
\* angles are multiples of pi/4, counted in eighths of a turn.
CosEighth(k) ==
    CASE k % 8 = 0 -> Num(1)
      [] k % 8 \in {1, 7} -> HalfRoot2
      [] k % 8 \in {2, 6} -> Zero
      [] k % 8 \in {3, 5} -> NNeg(HalfRoot2)
      [] k % 8 = 4 -> Num(-1)

MathCos(i, n) == CASE 8 % n = 0 -> CosEighth(i * (8 \div n))

MathSin(i, n) == CASE 8 % n = 0 -> CosEighth(i * (8 \div n) + 6)

\* The number of passes of the row-major double loop, 0 for an empty loop.
GridCount(inp) == IF inp.numRows <= 0 \/ inp.numCols <= 0 THEN 0 ELSE inp.numRows * inp.numCols

\* Fault variant: the polar moment gathers the x offsets only.
RECURSIVE SumSqOfX(_, _)
SumSqOfX(positions, i) ==
    IF i = 0 THEN Zero
    ELSE NAdd(SumSqOfX(positions, i - 1), NSq(positions[i].x))

RECURSIVE SumSq(_, _)
SumSq(positions, i) ==
    IF i = 0 THEN Zero
    ELSE NAdd(SumSq(positions, i - 1),
              NAdd(NSq(positions[i].x), NSq(positions[i].y)))

\* Fault variant: the grid starts half a pitch too far left.
startXUncentred(inp) == NDiv(NNeg(NMul(Num(inp.numCols), Num(inp.colSpacing))), Num(2))

\* const startX = -((inputs.numCols - 1) * inputs.colSpacing) / 2
startX(inp) == NDiv(NNeg(NMul(Num(inp.numCols - 1), Num(inp.colSpacing))), Num(2))

startY(inp) == NDiv(NNeg(NMul(Num(inp.numRows - 1), Num(inp.rowSpacing))), Num(2))

\* The positions with the polar moment the rectangular loop accumulates.
WithIbp(positions) ==
    [positions |-> positions, ibp |-> SumSq(positions, Len(positions))]

\* Fault variant: the polar moment of the circle is n * R.
OnCircleUnsquared(inp, radius) ==
    [positions |->
        [k \in 1..Max(inp.numBolts, 0) |->
            [x |-> NMul(radius, MathCos(k - 1, inp.numBolts)),
             y |-> NMul(radius, MathSin(k - 1, inp.numBolts))]],
     ibp |-> NMul(Num(inp.numBolts), radius)]

\* The positions on the circle of the given radius, with Ibp = n * R^2.
OnCircle(inp, radius) ==
    [positions |->
        [k \in 1..Max(inp.numBolts, 0) |->
            [x |-> NMul(radius, MathCos(k - 1, inp.numBolts)),
             y |-> NMul(radius, MathSin(k - 1, inp.numBolts))]],
     ibp |-> NMul(Num(inp.numBolts), NMul(radius, radius))]

calculateBoltLayout(inp) ==
    IF inp.arrangement = "rectangular"
    THEN WithIbp([k \in 1..GridCount(inp) |->
                    [x |-> NAdd(startX(inp),
                                NMul(Num((k - 1) % inp.numCols), Num(inp.colSpacing))),
                     y |-> NAdd(startY(inp),
                                NMul(Num((k - 1) \div inp.numCols), Num(inp.rowSpacing)))]])
    ELSE OnCircle(inp, NDiv(Num(inp.diameter), Num(2)))

(***************************************************************************)
(* App: the evaluation effect, useEffect(..., [inputs]).                   *)
(***************************************************************************)
\* const numBolts = arrangement === 'rectangular' ? numRows * numCols : numBolts
BoltCount(inp) ==
    IF inp.arrangement = "rectangular" THEN inp.numRows * inp.numCols
    ELSE inp.numBolts

\* Fault variant: the direct shear is not shared between the bolts.
verticalShearUndivided(inp, pos, numBolts, ibp) ==
    NAdd(NMul(Num(-inp.vy), Num(1000)),
         NDiv(NMul(NMul(Num(-inp.tb), Num(1000000)), pos.x), ibp))

\* Fault variant: the direct shear reads the axial load in place of Vy.
verticalShearOfAxialLoad(inp, pos, numBolts, ibp) ==
    NAdd(NDiv(NMul(Num(-inp.nt), Num(1000)), Num(numBolts)),
         NDiv(NMul(NMul(Num(-inp.tb), Num(1000000)), pos.x), ibp))

verticalShear(inp, pos, numBolts, ibp) ==
    NAdd(NDiv(NMul(Num(-inp.vy), Num(1000)), Num(numBolts)),
         NDiv(NMul(NMul(Num(-inp.tb), Num(1000000)), pos.x), ibp))

\* Fault variant: the torsion term takes the wrong coordinate.
horizontalShearSwapped(inp, pos, numBolts, ibp) ==
    NAdd(NDiv(NMul(Num(-inp.vx), Num(1000)), Num(numBolts)),
         NDiv(NMul(NMul(Num(-inp.tb), Num(1000000)), pos.x), ibp))

horizontalShear(inp, pos, numBolts, ibp) ==
    NAdd(NDiv(NMul(Num(-inp.vx), Num(1000)), Num(numBolts)),
         NDiv(NMul(NMul(Num(-inp.tb), Num(1000000)), pos.y), ibp))

totalShear(inp, pos, numBolts, ibp) ==
    RootDiv(MathSqrt(NAdd(NSq(verticalShear(inp, pos, numBolts, ibp)),
                          NSq(horizontalShear(inp, pos, numBolts, ibp)))),
            Num(1000))

\* Fault variant: the half-depth is not halved.
ymFullDepth(inp) ==
    IF inp.arrangement = "rectangular"
    THEN NMul(Num(inp.numRows), Num(inp.rowSpacing))
    ELSE Num(inp.diameter)

ym(inp) ==
    IF inp.arrangement = "rectangular"
    THEN NDiv(NMul(Num(inp.numRows), Num(inp.rowSpacing)), Num(2))
    ELSE NDiv(Num(inp.diameter), Num(2))

\* Fault variant: the half-width is measured between the outer columns.
xmBetweenColumns(inp) ==
    IF inp.arrangement = "rectangular"
    THEN NDiv(NMul(Num(inp.numCols - 1), Num(inp.colSpacing)), Num(2))
    ELSE NDiv(Num(inp.diameter), Num(2))

xm(inp) ==
    IF inp.arrangement = "rectangular"
    THEN NDiv(NMul(Num(inp.numCols), Num(inp.colSpacing)), Num(2))
    ELSE NDiv(Num(inp.diameter), Num(2))

majorAxisForce(inp, pos) ==
    NDiv(NMul(NMul(Num(inp.mb), Num(1000000)), pos.y),
         NMul(NMul(Num(2), ym(inp)), ym(inp)))

\* Fault variant: the minor-axis moment is resolved over the y offset.
minorAxisForceOverY(inp, pos) ==
    NDiv(NMul(NMul(Num(inp.mm), Num(1000000)), pos.y),
         NMul(NMul(Num(2), xm(inp)), xm(inp)))

minorAxisForce(inp, pos) ==
    NDiv(NMul(NMul(Num(inp.mm), Num(1000000)), pos.x),
         NMul(NMul(Num(2), xm(inp)), xm(inp)))

\* Fault variant: the axial force is not shared between the bolts.
pureAxialForceUndivided(inp, numBolts) == NMul(Num(inp.nt), Num(1000))

pureAxialForce(inp, numBolts) == NDiv(NMul(Num(inp.nt), Num(1000)), Num(numBolts))

\* Fault variant: a bolt in compression is given no tension.
totalAxialClipped(inp, pos, numBolts) ==
    MathMax(Zero,
            NDiv(NMul(inp.pryingAllowance,
                      NAdd(NAdd(pureAxialForce(inp, numBolts), majorAxisForce(inp, pos)),
                           minorAxisForce(inp, pos))),
                 Num(1000)))

totalAxial(inp, pos, numBolts) ==
    NDiv(NMul(inp.pryingAllowance,
              NAdd(NAdd(pureAxialForce(inp, numBolts), majorAxisForce(inp, pos)),
                   minorAxisForce(inp, pos))),
         Num(1000))

\* let maxShear = 0; positions.forEach(... maxShear = Math.max(maxShear, totalShear))
RECURSIVE MaxShearLoop(_, _, _, _, _)
MaxShearLoop(inp, positions, numBolts, ibp, i) ==
    IF i = 0 THEN MathSqrt(Zero)
    ELSE RootMax(MaxShearLoop(inp, positions, numBolts, ibp, i - 1),
                 totalShear(inp, positions[i], numBolts, ibp))

\* let maxTension = 0; positions.forEach(... maxTension = Math.max(maxTension, totalAxial))
RECURSIVE MaxTensionLoop(_, _, _, _)
MaxTensionLoop(inp, positions, numBolts, i) ==
    IF i = 0 THEN Zero
    ELSE MathMax(MaxTensionLoop(inp, positions, numBolts, i - 1),
                 totalAxial(inp, positions[i], numBolts))

\* Fault variant: the guard lets a single bolt through.
TooFewBoltsSingleAllowed(numBolts) == numBolts < 1

\* if (numBolts < 2) throw ...
TooFewBolts(numBolts) == numBolts < 2

\* Math.pow(maxShear / phiVf, 2) + Math.pow(maxTension / phiNtf, 2)
\* tension^2 for the quotient maxTension / phiNtf.
WqSq(a) == WqMul(a, a)

CombinedRatio(maxShear, maxTension, boltProps) ==
    WqAdd(WRootScaledSq(maxShear, NRecip(boltProps.phiVf)),
          WqSq(WqOf(NDiv(maxTension, boltProps.phiNtf))))

\* The record handed to setResults.
Outcome(boltProps, layout, maxShear, maxTension) ==
    [error |-> "null",
     results |->
        [shearForce |-> maxShear,
         axialForce |-> maxTension,
         combinedRatio |-> CombinedRatio(maxShear, maxTension, boltProps),
         boltPositions |-> layout.positions,
         maxShear |-> boltProps.phiVf,
         maxTension |-> boltProps.phiNtf,
         ibp |-> layout.ibp,
         tensileArea |-> boltProps.tensileArea,
         shearStress |->
            WRootScaled(maxShear, NDiv(Num(1000), boltProps.tensileArea)),
         tensileStress |->
            NDiv(NMul(maxTension, Num(1000)), boltProps.tensileArea)]]

\* The pass over the positions of the layout.
Forces(inp, numBolts, boltProps, layout) ==
    Outcome(boltProps, layout,
            MaxShearLoop(inp, layout.positions, numBolts, layout.ibp,
                         Len(layout.positions)),
            MaxTensionLoop(inp, layout.positions, numBolts, Len(layout.positions)))

\* Fault variant: the capacity lookup is checked before the bolt count.
CheckedLookupFirst(inp, numBolts, boltProps) ==
    IF IsUndefined(boltProps)
    THEN [error |-> "Invalid bolt grade and size combination"]
    ELSE IF TooFewBolts(numBolts)
    THEN [error |-> "Minimum 2 bolts required for analysis"]
    ELSE Forces(inp, numBolts, boltProps, calculateBoltLayout(inp))

\* The two checks and, past them, the computation.
Checked(inp, numBolts, boltProps) ==
    IF TooFewBolts(numBolts)
    THEN [error |-> "Minimum 2 bolts required for analysis"]
    ELSE IF IsUndefined(boltProps)
    THEN [error |-> "Invalid bolt grade and size combination"]
    ELSE Forces(inp, numBolts, boltProps, calculateBoltLayout(inp))

\* The outcome of one run of the effect body: the error thrown, or the record
\* handed to setResults.
Evaluate(inp) ==
    Checked(inp, BoltCount(inp), getBoltProperties(inp.boltGrade, inp.boltSize))

\* Fault variant: a ratio of exactly 1 is turned down.
DesignAcceptableStrict(res) ==
    res.combinedRatio.D # <<>> /\ ~WqLe(WqOf(Num(1)), res.combinedRatio)

\* The acceptance display: results.combinedRatio <= 1 ? "Design is acceptable"
\* : "Design exceeds limits".  A comparison with NaN (no denominator) is false.
DesignAcceptable(res) ==
    res.combinedRatio.D # <<>> /\ WqLe(res.combinedRatio, WqOf(Num(1)))

(***************************************************************************)
(* BoltPattern: calculateBoltForces, the per-bolt forces the view shows.   *)
(***************************************************************************)
totalBolts(inp) ==
    IF inp.arrangement = "rectangular" THEN inp.numRows * inp.numCols
    ELSE inp.numBolts

\* The polar moment the view accumulates in its first double loop.
RECURSIVE ViewIbp(_, _, _, _)
ViewIbp(inp, centerX, centerY, k) ==
    IF k = 0 THEN Zero
    ELSE LET row == (k - 1) \div inp.numCols
             col == (k - 1) % inp.numCols
             x == NSub(NMul(Num(col), Num(inp.colSpacing)), centerX)
             y == NSub(NMul(Num(row), Num(inp.rowSpacing)), centerY)
         IN  NAdd(ViewIbp(inp, centerX, centerY, k - 1), NAdd(NSq(x), NSq(y)))

\* The forces of the bolt at centroid-relative (x, y); halfY and halfX are ym
\* and xm (rectangular) or the radius (circular).
ViewBolt(inp, x, y, ibp, halfY, halfX, shownX, shownY) ==
    LET n == totalBolts(inp)
        shearX == NAdd(NDiv(NMul(Num(-inp.vx), Num(1000)), Num(n)),
                       NDiv(NMul(NMul(Num(-inp.tb), Num(1000000)), y), ibp))
        shearY == NAdd(NDiv(NMul(Num(-inp.vy), Num(1000)), Num(n)),
                       NDiv(NMul(NMul(Num(-inp.tb), Num(1000000)), x), ibp))
        major == NDiv(NMul(NMul(Num(inp.mb), Num(1000000)), y),
                      NMul(NMul(Num(2), halfY), halfY))
        minor == NDiv(NMul(NMul(Num(inp.mm), Num(1000000)), x),
                      NMul(NMul(Num(2), halfX), halfX))
        pure == NDiv(NMul(Num(inp.nt), Num(1000)), Num(n))
    IN  [x |-> shownX, y |-> shownY,
         shear |-> RootDiv(MathSqrt(NAdd(NSq(shearX), NSq(shearY))), Num(1000)),
         tension |-> NDiv(NMul(inp.pryingAllowance, NAdd(NAdd(pure, major), minor)),
                          Num(1000))]

calculateBoltForces(inp) ==
    IF inp.arrangement = "rectangular"
    THEN LET centerX == NDiv(NMul(Num(inp.numCols - 1), Num(inp.colSpacing)), Num(2))
             centerY == NDiv(NMul(Num(inp.numRows - 1), Num(inp.rowSpacing)), Num(2))
             ibp == ViewIbp(inp, centerX, centerY, GridCount(inp))
             halfY == NDiv(NMul(Num(inp.numRows), Num(inp.rowSpacing)), Num(2))
             halfX == NDiv(NMul(Num(inp.numCols), Num(inp.colSpacing)), Num(2))
         IN  [k \in 1..GridCount(inp) |->
                LET row == (k - 1) \div inp.numCols
                    col == (k - 1) % inp.numCols
                    shownX == NMul(Num(col), Num(inp.colSpacing))
                    shownY == NMul(Num(row), Num(inp.rowSpacing))
                IN  ViewBolt(inp, NSub(shownX, centerX), NSub(shownY, centerY),
                             ibp, halfY, halfX, shownX, shownY)]
    ELSE LET radius == NDiv(Num(inp.diameter), Num(2))
             ibp == NMul(NMul(Num(totalBolts(inp)), radius), radius)
         IN  [k \in 1..Max(totalBolts(inp), 0) |->
                LET x == NMul(radius, MathCos(k - 1, totalBolts(inp)))
                    y == NMul(radius, MathSin(k - 1, totalBolts(inp)))
                IN  ViewBolt(inp, x, y, ibp, radius, radius,
                             NAdd(x, radius), NAdd(y, radius))]

(***************************************************************************)
(* App state.                                                              *)
(***************************************************************************)
\* Bounds of the exploration.
MaxChanges == 2

MaxSaves == 2

DefaultInputs ==
    [arrangement |-> "rectangular",
     numRows |-> 4, numCols |-> 4, rowSpacing |-> 150, colSpacing |-> 160,
     diameter |-> 400, numBolts |-> 8,
     vx |-> 20, vy |-> 5, tb |-> 10, mb |-> 50, mm |-> 10, nt |-> 10,
     boltGrade |-> "Grade 8.8", boltSize |-> "M24",
     pryingAllowance |-> Dec(11, 1)]

InitialResults ==
    [shearForce |-> MathSqrt(Zero),
     axialForce |-> Zero,
     combinedRatio |-> WqOf(Zero),
     boltPositions |-> <<>>,
     maxShear |-> Zero,
     maxTension |-> Zero,
     ibp |-> Zero,
     tensileArea |-> Zero,
     shearStress |-> [rad |-> WqOf(Zero)],
     tensileStress |-> Zero]

NoInputs == [arrangement |-> "none"]

Mounted(inp) ==
    /\ inputs = inp
    /\ results = InitialResults
    /\ savedCalculations = <<>>
    /\ error = "null"
    /\ availableSizes = <<>>
    /\ pc = "effects"
    /\ effectGrade = ""
    /\ evalInputs = NoInputs
    /\ lastSuccess = InitialResults
    /\ changes = 0
    /\ catalog = boltData
    /\ calls = <<>>

Init == Mounted(DefaultInputs)

(***************************************************************************)
(* The input events explored.  parseFloat turns the text of a number field *)
(* into a number; the text of a selector is kept as it is.  The selectors  *)
(* offer getBoltGrades() and availableSizes.                               *)
(***************************************************************************)
EventValues(name) ==
    CASE name = "arrangement" -> {"circular"}
      [] name = "numRows" -> {0, 1}
      [] name = "numBolts" -> {1}
      [] name = "nt" -> {80}
      [] name = "boltGrade" -> {"Grade 4.6"}
      [] name = "boltSize" -> {"M12"}

FieldNames ==
    {"arrangement", "numRows", "numBolts", "nt", "boltGrade", "boltSize"}

\* Fault variant: the field is written into the current inputs object, which
\* schedules no render and so no effect.
handleInputChangeInPlace(name, value) ==
    /\ pc = "idle"
    /\ changes < MaxChanges
    /\ name = "boltGrade" => Includes(getBoltGrades, value)
    /\ name = "boltSize" => Includes(availableSizes, value)
    /\ inputs' = [inputs EXCEPT ![name] = value]
    /\ changes' = changes + 1
    /\ UNCHANGED <<results, savedCalculations, error, availableSizes, pc,
                   effectGrade, evalInputs, lastSuccess, catalog, calls>>

\* setInputs(prev => ({...prev, [name]: isNaN(numValue) ? value : numValue}))
handleInputChange(name, value) ==
    /\ pc = "idle"
    /\ changes < MaxChanges
    /\ name = "boltGrade" => Includes(getBoltGrades, value)
    /\ name = "boltSize" => Includes(availableSizes, value)
    /\ inputs' = [inputs EXCEPT ![name] = value]
    /\ pc' = "effects"
    /\ changes' = changes + 1
    /\ UNCHANGED <<results, savedCalculations, error, availableSizes,
                   effectGrade, evalInputs, lastSuccess, catalog, calls>>

\* Fault variant: a throw clears the stored result.
ResultsClearedOnError(outcome, previous) ==
    IF outcome.error = "null" THEN outcome.results ELSE InitialResults

\* Fault variant: a result once stored is taken for every later evaluation.
ResultsKeptOncePresent(outcome, previous) ==
    IF outcome.error = "null" /\ previous = InitialResults THEN outcome.results
    ELSE previous

\* The record setResults stores: the new one on success, none on a throw.
ResultsAfter(outcome, previous) ==
    IF outcome.error = "null" THEN outcome.results ELSE previous

\* Fault variant: a success leaves the message of an earlier throw in place.
ErrorKeptOnSuccess(outcome, previous) ==
    IF outcome.error = "null" THEN previous ELSE outcome.error

\* setError(null) after setResults, setError(message) in the catch.
ErrorAfter(outcome, previous) == outcome.error

\* Fault variant: the selected size is left as it is.
ResetSizeSkipped(inp, sizes) == inp

\* setInputs(prev => ({ ...prev, boltSize: sizes[0] })); sizes[0] of an empty
\* list is undefined.
ResetSize(inp, sizes) ==
    [inp EXCEPT !.boltSize = IF sizes = <<>> THEN "undefined" ELSE sizes[1]]

\* One commit's effects, in declaration order: the grade effect (when
\* inputs.boltGrade changed), then the evaluation effect.  A size reset by
\* the grade effect is a state update, so another render and pass follow.
RunEffects ==
    /\ pc = "effects"
    /\ \E outcome \in {Evaluate(inputs)} :
       LET gradeRuns == inputs.boltGrade # effectGrade
           sizes == getBoltSizes(inputs.boltGrade)
           reset == gradeRuns /\ ~Includes(sizes, inputs.boltSize)
       IN  /\ availableSizes' = IF gradeRuns THEN sizes ELSE availableSizes
           /\ effectGrade' = inputs.boltGrade
           /\ results' = ResultsAfter(outcome, results)
           /\ error' = ErrorAfter(outcome, error)
           /\ evalInputs' = inputs
           /\ lastSuccess' = IF outcome.error = "null" THEN outcome.results
                             ELSE lastSuccess
           /\ inputs' = IF reset THEN ResetSize(inputs, sizes) ELSE inputs
           /\ pc' = IF reset THEN "effects" ELSE "idle"
    /\ catalog' = ReadOnly(catalog)
    /\ UNCHANGED <<savedCalculations, changes, calls>>

\* formatDate(new Date()): the day of the save, read from the clock.
Today == "01/11/2026"

\* const calculation: the snapshot of the displayed result and the selected bolt.
calculation ==
    [shearForce |-> results.shearForce,
     axialForce |-> results.axialForce,
     shearUtilisation |-> WRootScaled(results.shearForce, NRecip(results.maxShear)),
     tensionUtilisation |-> NDiv(results.axialForce, results.maxTension),
     combinedRatio |-> results.combinedRatio,
     boltSize |-> inputs.boltSize,
     boltGrade |-> inputs.boltGrade,
     timestamp |-> Today]

\* Fault variant: the newest calculation is put first.
saveCalculationNewestFirst ==
    /\ pc = "idle"
    /\ Len(savedCalculations) < MaxSaves
    /\ savedCalculations' = <<calculation>> \o savedCalculations
    /\ UNCHANGED <<inputs, results, error, availableSizes, pc, effectGrade,
                   evalInputs, lastSuccess, changes, catalog, calls>>

\* setSavedCalculations(prev => [...prev, calculation])
saveCalculation ==
    /\ pc = "idle"
    /\ Len(savedCalculations) < MaxSaves
    /\ savedCalculations' = Append(savedCalculations, calculation)
    /\ UNCHANGED <<inputs, results, error, availableSizes, pc, effectGrade,
                   evalInputs, lastSuccess, changes, catalog, calls>>

Next ==
    \/ \E name \in FieldNames : \E value \in EventValues(name) :
          handleInputChange(name, value)
    \/ RunEffects
    \/ saveCalculation

Spec == Init /\ [][Next]_vars

(***************************************************************************)
(* The evaluation as a function of its inputs: the App mounted with any of *)
(* a family of input records in place of the defaults, and its effects run.*)
(***************************************************************************)
Geometries ==
    {[arrangement |-> "rectangular", numRows |-> r, numCols |-> c,
      rowSpacing |-> 150, colSpacing |-> w, diameter |-> 400, numBolts |-> 8] :
        r \in {1, 2, 3}, c \in {1, 2}, w \in {100, 160}}
    \cup
    {[arrangement |-> "circular", numRows |-> 4, numCols |-> 4,
      rowSpacing |-> 150, colSpacing |-> 160, diameter |-> d, numBolts |-> n] :
        d \in {250, 400}, n \in {1, 2, 4, 8}}

Loads(vx, vy, tb, mb, mm, nt) ==
    [vx |-> vx, vy |-> vy, tb |-> tb, mb |-> mb, mm |-> mm, nt |-> nt]

LoadCases ==
    { Loads(20, 5, 10, 50, 10, 10),
      Loads(0, 0, 0, 0, 0, 0),
      Loads(0, 0, 0, 0, 0, 80),
      Loads(0, 0, 0, 0, 0, 54),
      Loads(0, 0, 0, 0, 0, -10),
      Loads(20, 5, 0, 50, 10, 10),
      Loads(-20, 15, 0, 0, 0, 0),
      Loads(0, 0, 10, 0, 0, 0),
      Loads(0, 0, 0, -50, 10, 0),
      Loads(0, 0, 0, 5, -10, -80) }

\* "M14" is a size no catalog record has.
BoltChoices ==
    { <<"Grade 4.6", "M12">>, <<"Grade 8.8", "M24">>, <<"Grade 8.8", "M14">> }

Allowances == { Num(1), Dec(11, 1) }

EvalInputs ==
    {[arrangement |-> g.arrangement,
      numRows |-> g.numRows, numCols |-> g.numCols,
      rowSpacing |-> g.rowSpacing, colSpacing |-> g.colSpacing,
      diameter |-> g.diameter, numBolts |-> g.numBolts,
      vx |-> l.vx, vy |-> l.vy, tb |-> l.tb, mb |-> l.mb, mm |-> l.mm, nt |-> l.nt,
      boltGrade |-> b[1], boltSize |-> b[2],
      pryingAllowance |-> a] :
        g \in Geometries, l \in LoadCases, b \in BoltChoices, a \in Allowances}

EvalInit == \E inp \in EvalInputs : Mounted(inp)

EvalNext == RunEffects

EvalSpec == EvalInit /\ [][EvalNext]_vars

(***************************************************************************)
(* The accessors of boltData.ts called on their own, with grades and sizes *)
(* the catalog has and ones it has not.                                    *)
(***************************************************************************)
MaxCalls == 2

\* "Grade 12.9" is a grade no record has.
AskedGrades == {"Grade 4.6", "Grade 8.8", "Grade 10.9", "Grade 12.9"}

\* "M14" and "m12" are sizes no record has.
AskedSizes == {"M12", "M16", "M20", "M22", "M24", "M27", "M30", "M36", "M14", "m12"}

\* One accessor call: its record is appended to the history.
Called(name, args, value) ==
    /\ Len(calls) < MaxCalls
    /\ calls' = Append(calls, [name |-> name, args |-> args, value |-> value])
    /\ catalog' = ReadOnly(catalog)
    /\ UNCHANGED <<inputs, results, savedCalculations, error, availableSizes, pc,
                   effectGrade, evalInputs, lastSuccess, changes>>

CallGetBoltGrades == Called("getBoltGrades", <<>>, getBoltGrades)

CallGetBoltSizes(grade) == Called("getBoltSizes", <<grade>>, getBoltSizes(grade))

CallGetBoltProperties(grade, size) ==
    Called("getBoltProperties", <<grade, size>>, getBoltProperties(grade, size))

CatalogInit == Mounted(DefaultInputs)

CatalogNext ==
    \/ CallGetBoltGrades
    \/ \E grade \in AskedGrades : CallGetBoltSizes(grade)
    \/ \E grade \in AskedGrades : \E size \in AskedSizes :
          CallGetBoltProperties(grade, size)

CatalogSpec == CatalogInit /\ [][CatalogNext]_vars

(***************************************************************************)
(* Properties.  evalInputs holds the inputs of the latest run of the       *)
(* evaluation effect; error and results are what that run left behind.     *)
(***************************************************************************)
Evaluated == evalInputs # NoInputs

Succeeded == Evaluated /\ error = "null"

\* The total bolt count as the specification words it.
ClaimedCount(inp) ==
    IF inp.arrangement = "rectangular" THEN inp.numRows * inp.numCols
    ELSE inp.numBolts

\* No record of the catalog carries the pair (grade, size).
AbsentFromCatalog(grade, size) ==
    \A i \in DOMAIN boltData :
        ~(boltData[i].grade = grade /\ boltData[i].size = size)

InsufficientBoltCount == "Minimum 2 bolts required for analysis"

UnknownBoltSpec == "Invalid bolt grade and size combination"

\* C1: a run of the evaluation on an arrangement of fewer than 2 bolts
\* (numRows*numCols when rectangular, numBolts when circular) ends with the
\* error 'Minimum 2 bolts required for analysis' and stores no result,
\* whatever the loads, grade, size and prying allowance.
C1_InsufficientBoltCount ==
    [][(pc = "effects" /\ ClaimedCount(inputs) < 2)
          => (error' = InsufficientBoltCount /\ results' = results)]_vars

\* A single-bolt rectangular grid with a size the catalog lacks was evaluated
\* and rejected for its bolt count.
C1_Witness ==
    /\ evalInputs.arrangement = "rectangular"
    /\ evalInputs.numRows = 1 /\ evalInputs.numCols = 1
    /\ evalInputs.boltSize = "M14"
    /\ evalInputs.nt # 0
    /\ error = InsufficientBoltCount
    /\ results = InitialResults

\* C2: a run of the evaluation on an arrangement of at least 2 bolts whose
\* (grade, size) pair is absent from the catalog ends with the error
\* 'Invalid bolt grade and size combination' and stores no result.
C2_UnknownBoltSpec ==
    [][(/\ pc = "effects"
        /\ ClaimedCount(inputs) >= 2
        /\ AbsentFromCatalog(inputs.boltGrade, inputs.boltSize))
          => (error' = UnknownBoltSpec /\ results' = results)]_vars

\* An arrangement of 8 bolts with the size M14 was evaluated and rejected.
C2_Witness ==
    /\ Evaluated
    /\ ClaimedCount(evalInputs) = 8
    /\ evalInputs.boltGrade = "Grade 8.8" /\ evalInputs.boltSize = "M14"
    /\ error = UnknownBoltSpec

\* C3: whenever the latest evaluation failed, the displayed result is, field
\* for field, the record of the most recent successful evaluation (the
\* initial record when none succeeded yet), until a later one succeeds.
C3_FailureKeepsResult ==
    (Evaluated /\ error # "null") => results = lastSuccess

\* After a successful evaluation a later one failed, and the result of the
\* earlier one is still on display.
C3_Witness ==
    /\ Evaluated
    /\ error # "null"
    /\ results # InitialResults
    /\ results = Evaluate(DefaultInputs).results

\* The bolts of the latest evaluation, by index, and the forces the effect
\* and the view compute for bolt k.
Bolts == DOMAIN results.boltPositions

EffectTension(k) ==
    totalAxial(evalInputs, results.boltPositions[k], BoltCount(evalInputs))

EffectShear(k) ==
    totalShear(evalInputs, results.boltPositions[k], BoltCount(evalInputs),
               results.ibp)

ViewForces == calculateBoltForces(evalInputs)

\* C4: after a successful evaluation the reported max tension is the
\* greatest of the bolts' tensions (prying included), for loads of any sign,
\* so also when every bolt's tension is negative.
C4_MaxTensionIsGreatestBoltTension ==
    Succeeded =>
        /\ \E k \in Bolts : results.axialForce = EffectTension(k)
        /\ \A k \in Bolts : NLe(EffectTension(k), results.axialForce)

\* The capacities of the selected pair, read from the catalog.
CatalogRecord(grade, size) ==
    CHOOSE b \in {boltData[i] : i \in DOMAIN boltData} :
        b.grade = grade /\ b.size = size

\* shear^2 * phiNtf^2 + tension^2 * phiVf^2 and phiVf^2 * phiNtf^2: the
\* ratio (shear/phiVf)^2 + (tension/phiNtf)^2 is their quotient.
RatioNumerator(res, cap) ==
    WqAdd(WqMul(WqOf(res.shearForce.rad), WqOf(NSq(cap.phiNtf))),
          WqMul(WqMul(WqOf(res.axialForce), WqOf(res.axialForce)),
                WqOf(NSq(cap.phiVf))))

RatioDenominator(cap) == WqMul(WqOf(NSq(cap.phiVf)), WqOf(NSq(cap.phiNtf)))

\* C5: after a successful evaluation the combined ratio is
\* (maxShear/phiVf)^2 + (maxTension/phiNtf)^2 for the capacities of the
\* selected (grade, size), and the design is shown as acceptable exactly
\* when that ratio is at most 1 (a ratio of exactly 1 is acceptable).
C5_CombinedRatioAndAcceptance ==
    Succeeded =>
        LET cap == CatalogRecord(evalInputs.boltGrade, evalInputs.boltSize)
        IN  /\ WqEq(WqMul(results.combinedRatio, RatioDenominator(cap)),
                    RatioNumerator(results, cap))
            /\ DesignAcceptable(results)
                  <=> WqLe(RatioNumerator(results, cap), RatioDenominator(cap))

\* Two bolts of Grade 4.6 M12 (phiNtf = 27) under Nt = 54 and no prying: the
\* tension is 27 on each, the ratio exactly 1, the design acceptable.
C5_Witness ==
    /\ Succeeded
    /\ evalInputs.nt = 54
    /\ results.axialForce = Num(27)
    /\ WqEq(results.combinedRatio, WqOf(Num(1)))
    /\ DesignAcceptable(results)

\* The half-depths and the bolt tension as the specification words them.
ClaimedHalfDepth(inp, count, spacing) ==
    IF inp.arrangement = "rectangular"
    THEN NDiv(Num(count * spacing), Num(2))
    ELSE NDiv(Num(inp.diameter), Num(2))

ClaimedTension(inp, pos) ==
    LET n == Num(ClaimedCount(inp))
        ymC == ClaimedHalfDepth(inp, inp.numRows, inp.rowSpacing)
        xmC == ClaimedHalfDepth(inp, inp.numCols, inp.colSpacing)
        axial == NDiv(Num(inp.nt * 1000), n)
        major == NDiv(NMul(Num(inp.mb * 1000000), pos.y), NMul(Num(2), NSq(ymC)))
        minor == NDiv(NMul(Num(inp.mm * 1000000), pos.x), NMul(Num(2), NSq(xmC)))
    IN  NDiv(NMul(inp.pryingAllowance, NAdd(NAdd(axial, major), minor)), Num(1000))

\* C6: the tension of the bolt at centroid-relative (x, y) is
\* alpha * (Nt*1000/n + Mb*1e6*y/(2*ym^2) + Mm*1e6*x/(2*xm^2)) / 1000 with
\* ym = numRows*rowSpacing/2, xm = numCols*colSpacing/2 (rectangular) or
\* ym = xm = diameter/2 (circular), in the evaluation and in the view.
C6_BoltTension ==
    Succeeded =>
        \A k \in Bolts :
            /\ EffectTension(k) = ClaimedTension(evalInputs, results.boltPositions[k])
            /\ ViewForces[k].tension
                  = ClaimedTension(evalInputs, results.boltPositions[k])

\* A rectangular grid under both moments was evaluated, and a bolt off both
\* axes carries a tension other than the plain share alpha * Nt / n.
C6_Witness ==
    /\ Succeeded
    /\ evalInputs.arrangement = "rectangular"
    /\ evalInputs.mb # 0 /\ evalInputs.mm # 0
    /\ \E k \in Bolts :
          /\ ~IsZero(results.boltPositions[k].x)
          /\ ~IsZero(results.boltPositions[k].y)
          /\ EffectTension(k) # NDiv(NMul(evalInputs.pryingAllowance,
                                          Num(evalInputs.nt)),
                                     Num(ClaimedCount(evalInputs)))

\* The square of the resultant shear in kN as the specification words it, and
\* the square of the displayed governing equation with Tb taken in kN mm.
ClaimedShearSq(inp, pos, ibp) ==
    LET n == Num(ClaimedCount(inp))
        sx == NSub(NDiv(Num(-inp.vx * 1000), n),
                   NDiv(NMul(Num(inp.tb * 1000000), pos.y), ibp))
        sy == NSub(NDiv(Num(-inp.vy * 1000), n),
                   NDiv(NMul(Num(inp.tb * 1000000), pos.x), ibp))
    IN  NDiv(NAdd(NSq(sx), NSq(sy)), Num(1000000))

GoverningShearSq(inp, pos, ibp) ==
    LET n == Num(ClaimedCount(inp))
        tb == Num(inp.tb * 1000)
    IN  NAdd(NSq(NAdd(NDiv(Num(inp.vx), n), NDiv(NMul(tb, pos.y), ibp))),
             NSq(NAdd(NDiv(Num(inp.vy), n), NDiv(NMul(tb, pos.x), ibp))))

\* C7: the resultant shear of the bolt at centroid-relative (x, y) is
\* sqrt(sx^2 + sy^2)/1000 with sx = -Vx*1000/n - Tb*1e6*y/Ibp and
\* sy = -Vy*1000/n - Tb*1e6*x/Ibp, in the evaluation and in the view, and
\* that is the magnitude of the governing equation shown to the user.
C7_BoltShear ==
    Succeeded =>
        \A k \in Bolts :
            LET claimed == ClaimedShearSq(evalInputs, results.boltPositions[k],
                                          results.ibp)
            IN  /\ EffectShear(k).rad = claimed
                /\ ViewForces[k].shear.rad = claimed
                /\ GoverningShearSq(evalInputs, results.boltPositions[k],
                                    results.ibp) = claimed

\* Direct shear and torsion act together on a bolt whose coordinates differ,
\* and the torsion changes that bolt's shear.
C7_Witness ==
    /\ Succeeded
    /\ evalInputs.tb # 0 /\ evalInputs.vx # 0 /\ evalInputs.vy # 0
    /\ \E k \in Bolts :
          /\ results.boltPositions[k].x # results.boltPositions[k].y
          /\ EffectShear(k).rad
                # NDiv(Num(evalInputs.vx * evalInputs.vx
                             + evalInputs.vy * evalInputs.vy),
                       NSq(Num(ClaimedCount(evalInputs))))

\* Only the axial force acts.
OnlyNt(inp) ==
    /\ inp.vx = 0 /\ inp.vy = 0 /\ inp.tb = 0 /\ inp.mb = 0 /\ inp.mm = 0
    /\ inp.nt # 0

\* The specification's scenario: 8 bolts on a 400 mm circle, Nt = 80 kN,
\* prying allowance 1.1.
EightBoltCircle(inp) ==
    /\ inp.arrangement = "circular"
    /\ inp.diameter = 400 /\ inp.numBolts = 8
    /\ inp.nt = 80
    /\ inp.pryingAllowance = Dec(11, 1)

\* C8: with Vx = Vy = Tb = Mb = Mm = 0 and Nt # 0 every bolt of an
\* arrangement of n >= 2 bolts has the tension alpha * Nt / n, in the
\* evaluation and in the view; 8 bolts on a 400 mm circle with Nt = 80 and
\* alpha = 1.1 carry 11 kN each.
C8_PureAxialIsUniform ==
    (Succeeded /\ OnlyNt(evalInputs)) =>
        \A k \in Bolts :
            LET share == NDiv(NMul(evalInputs.pryingAllowance, Num(evalInputs.nt)),
                              Num(ClaimedCount(evalInputs)))
            IN  /\ EffectTension(k) = share
                /\ ViewForces[k].tension = share
                /\ EightBoltCircle(evalInputs) => EffectTension(k) = Num(11)

\* The scenario was evaluated: eight bolts, 11 kN the greatest tension.
C8_Witness ==
    /\ Succeeded
    /\ OnlyNt(evalInputs)
    /\ EightBoltCircle(evalInputs)
    /\ Len(results.boltPositions) = 8
    /\ results.axialForce = Num(11)

\* (Vx^2 + Vy^2) / n^2, the square of the uniform direct shear.
DirectShearSq(inp) ==
    NDiv(Num(inp.vx * inp.vx + inp.vy * inp.vy),
         Num(ClaimedCount(inp) * ClaimedCount(inp)))

\* C9: with Tb = 0, whatever Mb, Mm and Nt are, every bolt of an arrangement
\* of n >= 2 bolts has the resultant shear sqrt(Vx^2 + Vy^2)/n, in the
\* evaluation and in the view, and that value is the reported max shear.
C9_DirectShearIsUniform ==
    (Succeeded /\ evalInputs.tb = 0) =>
        /\ \A k \in Bolts :
              /\ EffectShear(k).rad = DirectShearSq(evalInputs)
              /\ ViewForces[k].shear.rad = DirectShearSq(evalInputs)
        /\ results.shearForce.rad = DirectShearSq(evalInputs)

\* Six bolts share Vx = 20 and Vy = 5 while both moments and the axial force
\* act: the reported shear is sqrt(425)/6.
C9_Witness ==
    /\ Succeeded
    /\ evalInputs.tb = 0
    /\ evalInputs.vx = 20 /\ evalInputs.vy = 5
    /\ evalInputs.mb # 0 /\ evalInputs.mm # 0 /\ evalInputs.nt # 0
    /\ Len(results.boltPositions) = 6
    /\ results.shearForce.rad = NDiv(Num(425), Num(36))

RECURSIVE SumX(_, _)
SumX(positions, i) ==
    IF i = 0 THEN Zero ELSE NAdd(SumX(positions, i - 1), positions[i].x)

RECURSIVE SumY(_, _)
SumY(positions, i) ==
    IF i = 0 THEN Zero ELSE NAdd(SumY(positions, i - 1), positions[i].y)

\* The position of the bolt in (row, col) as the specification words it.
ClaimedGridPosition(inp, row, col) ==
    [x |-> NSub(Num(col * inp.colSpacing),
                NDiv(Num((inp.numCols - 1) * inp.colSpacing), Num(2))),
     y |-> NSub(Num(row * inp.rowSpacing),
                NDiv(Num((inp.numRows - 1) * inp.rowSpacing), Num(2)))]

\* C10: for a rectangular arrangement (numRows >= 1, numCols >= 1, positive
\* spacings) the layout has exactly numRows * numCols positions, one per
\* (row, col), at x = col*colSpacing - (numCols-1)*colSpacing/2 and
\* y = row*rowSpacing - (numRows-1)*rowSpacing/2; their x-coordinates and
\* their y-coordinates each sum to 0.  A successful evaluation stores them.
C10_RectangularLayout ==
    (Evaluated /\ evalInputs.arrangement = "rectangular") =>
        LET inp == evalInputs
            positions == calculateBoltLayout(inp).positions
        IN  /\ Len(positions) = inp.numRows * inp.numCols
            /\ \A row \in 0..(inp.numRows - 1) : \A col \in 0..(inp.numCols - 1) :
                  positions[row * inp.numCols + col + 1]
                      = ClaimedGridPosition(inp, row, col)
            /\ SumX(positions, Len(positions)) = Zero
            /\ SumY(positions, Len(positions)) = Zero
            /\ Succeeded => results.boltPositions = positions

\* A grid of 3 rows and 2 columns at 150 mm and 100 mm was evaluated: six
\* positions, the first at (-50, -150), the last at (50, 150).
C10_Witness ==
    /\ Succeeded
    /\ evalInputs.arrangement = "rectangular"
    /\ evalInputs.numRows = 3 /\ evalInputs.numCols = 2
    /\ evalInputs.colSpacing = 100
    /\ Len(results.boltPositions) = 6
    /\ results.boltPositions[1] = [x |-> Num(-50), y |-> Num(-150)]
    /\ results.boltPositions[6] = [x |-> Num(50), y |-> Num(150)]

(***************************************************************************)
(* Polar moment of the bolt group.                                         *)
(***************************************************************************)
\* The sum of x^2 + y^2 over the bolts with the indices in todo.
RECURSIVE ClaimedPolarMoment(_, _)
ClaimedPolarMoment(positions, todo) ==
    IF todo = {} THEN Zero
    ELSE LET k == CHOOSE j \in todo : TRUE
         IN  NAdd(NAdd(NSq(positions[k].x), NSq(positions[k].y)),
                  ClaimedPolarMoment(positions, todo \ {k}))

\* The polar moment the pattern view accumulates for a grid.
ViewGridIbp(inp) ==
    ViewIbp(inp,
            NDiv(NMul(Num(inp.numCols - 1), Num(inp.colSpacing)), Num(2)),
            NDiv(NMul(Num(inp.numRows - 1), Num(inp.rowSpacing)), Num(2)),
            GridCount(inp))

\* C11: for every rectangular arrangement that evaluates, the reported polar
\* moment Ibp is the sum over all enumerated bolts of x^2 + y^2 of their
\* centroid-relative positions, and the pattern view accumulates the same.
C11_RectangularIbp ==
    (Succeeded /\ evalInputs.arrangement = "rectangular") =>
        /\ results.ibp = ClaimedPolarMoment(results.boltPositions, Bolts)
        /\ ViewGridIbp(evalInputs) = results.ibp

C11_Witness ==
    /\ Succeeded
    /\ evalInputs.arrangement = "rectangular"
    /\ evalInputs.numRows = 3 /\ evalInputs.numCols = 2
    /\ evalInputs.colSpacing = 100
    /\ Len(results.boltPositions) = 6
    /\ results.ibp = Num(105000)

\* C12: for every circular arrangement that evaluates, the reported polar
\* moment Ibp is numBolts * (diameter / 2)^2 exactly, whatever positions were
\* enumerated on the circle.
C12_CircularIbp ==
    (Succeeded /\ evalInputs.arrangement = "circular") =>
        results.ibp = NDiv(Num(evalInputs.numBolts * evalInputs.diameter
                                * evalInputs.diameter), Num(4))

C12_Witness ==
    /\ Succeeded
    /\ evalInputs.arrangement = "circular"
    /\ evalInputs.numBolts = 8 /\ evalInputs.diameter = 250
    /\ Len(results.boltPositions) = 8
    /\ results.ibp = Num(125000)

(***************************************************************************)
(* Sign of the bolt tension.                                               *)
(***************************************************************************)
\* The position opposite pos through the centroid.
Mirrored(pos) == [x |-> NNeg(pos.x), y |-> NNeg(pos.y)]

\* C13: the tension of a bolt is not clipped at zero: with Nt = 0, in every
\* rectangular arrangement each bolt at (x, y) has a bolt at (-x, -y), and
\* that bolt carries exactly the negated tension, in the evaluation and in
\* the pattern view; bolts on the compression side carry negative tension.
C13_TensionIsAntisymmetric ==
    (Succeeded /\ evalInputs.arrangement = "rectangular" /\ evalInputs.nt = 0) =>
        \A k \in Bolts :
            /\ \E j \in Bolts :
                  results.boltPositions[j] = Mirrored(results.boltPositions[k])
            /\ \A j \in Bolts :
                  results.boltPositions[j] = Mirrored(results.boltPositions[k]) =>
                      /\ EffectTension(j) = NNeg(EffectTension(k))
                      /\ ViewForces[j].tension = NNeg(ViewForces[k].tension)

C13_Witness ==
    /\ Succeeded
    /\ evalInputs.arrangement = "rectangular"
    /\ evalInputs.nt = 0 /\ evalInputs.mb = -50
    /\ Len(results.boltPositions) = 6
    /\ NSign(EffectTension(6)) < 0
    /\ NSign(ViewForces[6].tension) < 0
    /\ EffectTension(1) = NNeg(EffectTension(6))

(***************************************************************************)
(* The evaluation and the App state around it.                             *)
(***************************************************************************)
\* C14: the outcome of an evaluation (its error message, and on success the
\* stored result) is a function of the evaluated inputs alone: whatever
\* result, error flag and saved history the App holds when the effect runs,
\* the outcome is the one Evaluate gives for these inputs.
C14_EvaluationIsDeterministic ==
    [][pc = "effects" =>
          \E outcome \in {Evaluate(inputs)} :
              /\ error' = outcome.error
              /\ outcome.error = "null" => results' = outcome.results]_vars

\* An evaluation that succeeded over an error flag, an older result and a
\* saved history: the row count was set to 0 and then to 1.
C14_Witness ==
    /\ Succeeded
    /\ changes = 2
    /\ savedCalculations # <<>>
    /\ evalInputs = [DefaultInputs EXCEPT !.numRows = 1]
    /\ results = Evaluate(evalInputs).results
    /\ results # Evaluate(DefaultInputs).results

\* C15: the saved history is ordered and append-only: every step leaves the
\* entries saved so far in place and unmodified, be it an input change, a
\* recomputation or a save, and a save (the step that leaves the inputs and
\* the pending effects alone) adds exactly one entry at the end.
C15_HistoryIsAppendOnly ==
    [][/\ Len(savedCalculations') \in
              {Len(savedCalculations), Len(savedCalculations) + 1}
       /\ \A i \in 1..Len(savedCalculations) :
              savedCalculations'[i] = savedCalculations[i]
       /\ (pc = "idle" /\ pc' = "idle") =>
              Len(savedCalculations') = Len(savedCalculations) + 1]_vars

\* Two different entries in the order of their saves, and an input change
\* and its recomputation after the second.
C15_Witness ==
    /\ Len(savedCalculations) = 2
    /\ savedCalculations[1].boltGrade = "Grade 8.8"
    /\ savedCalculations[2].boltGrade = "Grade 4.6"
    /\ savedCalculations[1].combinedRatio # savedCalculations[2].combinedRatio
    /\ inputs.boltSize = "M12"
    /\ savedCalculations[2].boltSize = "M24"
    /\ pc = "idle"

\* C16: last write wins: when the effects of the latest input change have
\* run and left no error, the displayed result is the evaluation of the
\* inputs as they now are; while no effect is pending, no step touches the
\* inputs, the result or the error.
C16_LastWriteWins ==
    [][/\ (pc = "effects" /\ pc' = "idle" /\ error' = "null") =>
              results' = Evaluate(inputs').results
       /\ (pc = "idle" /\ pc' = "idle") =>
              UNCHANGED <<inputs, results, error>>]_vars

\* Two changes, of the axial load and then of the bolt size or the other way
\* round: the result on display is the one of both changes together.
C16_Witness ==
    /\ pc = "idle"
    /\ error = "null"
    /\ changes = 2
    /\ inputs = [DefaultInputs EXCEPT !.nt = 80, !.boltSize = "M12"]
    /\ results = Evaluate(inputs).results
    /\ results # Evaluate([DefaultInputs EXCEPT !.nt = 80]).results
    /\ results # Evaluate([DefaultInputs EXCEPT !.boltSize = "M12"]).results

(***************************************************************************)
(* The catalog and its accessors.                                          *)
(***************************************************************************)
\* The calls of the accessor of the given name made so far.
CallsOf(name) == {i \in DOMAIN calls : calls[i].name = name}

\* C17: getBoltProperties(grade, size) returns the catalog record whose
\* grade and size both equal the arguments, and returns undefined, without
\* failing, for every pair no record carries: an unknown grade, an unknown
\* size, a known grade with a size it does not have.
C17_LookupMatchesBoth ==
    \A i \in CallsOf("getBoltProperties") :
        IF AbsentFromCatalog(calls[i].args[1], calls[i].args[2])
        THEN IsUndefined(calls[i].value)
        ELSE /\ ~IsUndefined(calls[i].value)
             /\ calls[i].value.grade = calls[i].args[1]
             /\ calls[i].value.size = calls[i].args[2]
             /\ \E k \in DOMAIN boltData : calls[i].value = boltData[k]

\* A pair the catalog has, then a size the catalog has under a grade it has not.
C17_Witness ==
    /\ Len(calls) = 2
    /\ calls[1].name = "getBoltProperties"
    /\ calls[1].args = <<"Grade 10.9", "M36">>
    /\ calls[1].value = boltData[24]
    /\ calls[2].name = "getBoltProperties"
    /\ calls[2].args = <<"Grade 12.9", "M12">>
    /\ IsUndefined(calls[2].value)

\* The index of the first record of the static data with the grade.
FirstRecordOf(grade) ==
    CHOOSE k \in DOMAIN boltData :
        /\ boltData[k].grade = grade
        /\ \A j \in 1..(k - 1) : boltData[j].grade # grade

\* C18: getBoltGrades() returns every grade label of the catalog exactly
\* once, in the order of first appearance: 'Grade 4.6', 'Grade 8.8',
\* 'Grade 10.9'.
C18_GradesOnceInOrder ==
    \A i \in CallsOf("getBoltGrades") :
        /\ calls[i].value = <<"Grade 4.6", "Grade 8.8", "Grade 10.9">>
        /\ \A k \in DOMAIN boltData :
              Cardinality({a \in DOMAIN calls[i].value :
                              calls[i].value[a] = boltData[k].grade}) = 1
        /\ \A a \in DOMAIN calls[i].value :
              \E k \in DOMAIN boltData : boltData[k].grade = calls[i].value[a]
        /\ \A a \in DOMAIN calls[i].value : \A b \in DOMAIN calls[i].value :
              a < b => FirstRecordOf(calls[i].value[a]) < FirstRecordOf(calls[i].value[b])

\* The grades were listed twice in a row, with the same three labels.
C18_Witness ==
    /\ Len(calls) = 2
    /\ calls[1].name = "getBoltGrades"
    /\ calls[2].name = "getBoltGrades"
    /\ calls[1].value = calls[2].value
    /\ Len(calls[2].value) = 3
    /\ calls[2].value[1] = "Grade 4.6"
    /\ calls[2].value[3] = "Grade 10.9"

\* The sizes of the records of the static data from index k on that carry
\* the grade, in catalog order.
RECURSIVE ClaimedSizes(_, _)
ClaimedSizes(grade, k) ==
    IF k > Len(boltData) THEN <<>>
    ELSE IF boltData[k].grade = grade
    THEN <<boltData[k].size>> \o ClaimedSizes(grade, k + 1)
    ELSE ClaimedSizes(grade, k + 1)

\* C19: getBoltSizes(grade) returns the sizes of exactly the records of that
\* grade, in catalog order, and the empty sequence for a grade no record has.
C19_SizesOfGrade ==
    \A i \in CallsOf("getBoltSizes") :
        /\ calls[i].value = ClaimedSizes(calls[i].args[1], 1)
        /\ (\A k \in DOMAIN boltData : boltData[k].grade # calls[i].args[1]) =>
              calls[i].value = <<>>

\* The sizes of a grade of the catalog, then those of a grade it has not.
C19_Witness ==
    /\ Len(calls) = 2
    /\ calls[1].name = "getBoltSizes"
    /\ calls[1].args = <<"Grade 8.8">>
    /\ calls[1].value = <<"M12", "M16", "M20", "M22", "M24", "M27", "M30", "M36">>
    /\ calls[2].name = "getBoltSizes"
    /\ calls[2].args = <<"Grade 12.9">>
    /\ calls[2].value = <<>>

\* C20: the catalog is never altered: after any sequence of evaluations
\* (which call the accessors), input changes and saves, the array holds the
\* records of the static data, in their order.
C20_CatalogIsNeverAltered == catalog = boltData

\* After a grade change (listing the sizes anew), a further change, their
\* evaluations (each with a lookup) and two saves.
C20_Witness ==
    /\ Succeeded
    /\ pc = "idle"
    /\ changes = 2
    /\ Len(savedCalculations) = 2
    /\ evalInputs.boltGrade = "Grade 4.6"
    /\ availableSizes = getBoltSizes("Grade 4.6")
    /\ Len(catalog) = 24
    /\ catalog = boltData

\* The indices of the catalog records that carry the pair (grade, size).
Matches(grade, size) ==
    {k \in DOMAIN catalog : catalog[k].grade = grade /\ catalog[k].size = size}

CatalogGrades == {catalog[k].grade : k \in DOMAIN catalog}

CatalogSizes == {catalog[k].size : k \in DOMAIN catalog}

\* C21: the catalog holds exactly one record per (grade, size) pair: it is
\* the full product of 3 grades and 8 sizes, 24 records, no two of which
\* share both grade and size, so the record a lookup finds first is the only
\* one that matches.
C21_OneRecordPerPair ==
    /\ Len(catalog) = 24
    /\ Cardinality(CatalogGrades) = 3
    /\ Cardinality(CatalogSizes) = 8
    /\ \A grade \in CatalogGrades : \A size \in CatalogSizes :
          Cardinality(Matches(grade, size)) = 1
    /\ \A i \in CallsOf("getBoltProperties") :
          ~IsUndefined(calls[i].value) =>
              \E k \in DOMAIN catalog :
                  /\ Matches(calls[i].args[1], calls[i].args[2]) = {k}
                  /\ calls[i].value = catalog[k]

\* Two lookups of pairs in the middle of the catalog, each finding the one
\* record of its pair.
C21_Witness ==
    /\ Len(calls) = 2
    /\ calls[1].name = "getBoltProperties"
    /\ calls[1].args = <<"Grade 10.9", "M22">>
    /\ calls[1].value = catalog[20]
    /\ calls[2].name = "getBoltProperties"
    /\ calls[2].args = <<"Grade 10.9", "M20">>
    /\ calls[2].value = catalog[19]
    /\ Matches("Grade 10.9", "M20") = {19}

\* C22: getBoltProperties('Grade 4.6', 'M12') returns phiVf = 16.7,
\* phiNtf = 27, tensileArea = 84.3 and fuf = 400.
C22_Grade46M12 ==
    \A i \in CallsOf("getBoltProperties") :
        calls[i].args = <<"Grade 4.6", "M12">> =>
            /\ ~IsUndefined(calls[i].value)
            /\ calls[i].value.phiVf = Dec(167, 1)
            /\ calls[i].value.phiNtf = Num(27)
            /\ calls[i].value.tensileArea = Dec(843, 1)
            /\ calls[i].value.fuf = Num(400)

\* The pair was looked up after the sizes of its grade were listed.
C22_Witness ==
    /\ Len(calls) = 2
    /\ calls[1].name = "getBoltSizes"
    /\ calls[1].args = <<"Grade 4.6">>
    /\ calls[2].name = "getBoltProperties"
    /\ calls[2].args = <<"Grade 4.6", "M12">>
    /\ calls[2].value.grade = "Grade 4.6"
    /\ calls[2].value.size = "M12"
    /\ calls[2].value.phiVf = Dec(167, 1)

(***************************************************************************)
(* The default scenario.                                                   *)
(***************************************************************************)
\* The scenario as the specification gives it (numBolts and diameter are the
\* fields a rectangular arrangement does not read).
DefaultScenario ==
    [arrangement |-> "rectangular",
     numRows |-> 4, numCols |-> 4, rowSpacing |-> 150, colSpacing |-> 160,
     diameter |-> 400, numBolts |-> 8,
     vx |-> 20, vy |-> 5, tb |-> 10, mb |-> 50, mm |-> 10, nt |-> 10,
     boltGrade |-> "Grade 8.8", boltSize |-> "M24",
     pryingAllowance |-> Dec(11, 1)]

\* Bolt k of the latest evaluation governs: it carries the reported max
\* tension and the reported max shear, and both are what the formulas of the
\* specification give at its position.
Governs(k) ==
    /\ EffectTension(k) = results.axialForce
    /\ EffectShear(k) = results.shearForce
    /\ results.axialForce = ClaimedTension(evalInputs, results.boltPositions[k])
    /\ results.shearForce.rad =
          ClaimedShearSq(evalInputs, results.boltPositions[k], results.ibp)

\* C23: the App mounts with the default scenario; its evaluation succeeds
\* with Ibp = 962000, a max tension of 82.328125 kN at the bolt
\* (x, y) = (240, 225), which also governs shear, capacities 145.1 and
\* 234.1 kN, and a combined ratio of at most 1 (design acceptable).
C23_DefaultScenario ==
    (Evaluated /\ changes = 0) =>
        /\ evalInputs = DefaultScenario
        /\ error = "null"
        /\ results.ibp = Num(962000)
        /\ results.axialForce = Dec(82328125, 6)
        /\ \E k \in Bolts :
              /\ results.boltPositions[k] = [x |-> Num(240), y |-> Num(225)]
              /\ Governs(k)
        /\ \A k \in Bolts :
              /\ NLe(EffectTension(k), results.axialForce)
              /\ NLe(EffectShear(k).rad, results.shearForce.rad)
        /\ results.maxShear = Dec(1451, 1)
        /\ results.maxTension = Dec(2341, 1)
        /\ DesignAcceptable(results)

\* The default scenario has been evaluated and nothing was changed since.
C23_Witness ==
    /\ Succeeded
    /\ changes = 0
    /\ pc = "idle"
    /\ inputs = DefaultScenario
    /\ Len(results.boltPositions) = 16
    /\ results.boltPositions[16] = [x |-> Num(240), y |-> Num(225)]
    /\ results.axialForce = Dec(82328125, 6)

(***************************************************************************)
(* The error indicator.                                                    *)
(***************************************************************************)
\* The evaluation of the inputs fails: fewer than 2 bolts, or a grade and
\* size no catalog record carries.
Fails(inp) ==
    \/ ClaimedCount(inp) < 2
    \/ AbsentFromCatalog(inp.boltGrade, inp.boltSize)

\* C24: the error indicator tracks the latest evaluation: once the effects
\* of the latest input change have run, an error message is shown if and
\* only if the evaluation of the current inputs fails; so a successful
\* evaluation clears a message shown before.
C24_ErrorTracksEvaluation ==
    pc = "idle" => (error # "null" <=> Fails(inputs))

\* The row count was changed twice and is now 1: four bolts, no message,
\* whether or not the first change (to 0 rows) had raised one.
C24_Witness ==
    /\ pc = "idle"
    /\ changes = 2
    /\ inputs.numRows = 1
    /\ inputs.arrangement = "rectangular"
    /\ ~Fails(inputs)
    /\ error = "null"
    /\ Len(results.boltPositions) = 4

(***************************************************************************)
(* The saved calculations.                                                 *)
(***************************************************************************)
\* The entry's utilisations and combined ratio are those of its forces
\* against the capacities of the grade and size the entry itself records.
ConsistentWithLabels(entry, cap) ==
    /\ WqEq(entry.shearUtilisation.rad,
            WRootScaledSq(entry.shearForce, NRecip(cap.phiVf)))
    /\ entry.tensionUtilisation = NDiv(entry.axialForce, cap.phiNtf)
    /\ WqEq(WqMul(entry.combinedRatio, RatioDenominator(cap)),
            RatioNumerator(entry, cap))

\* C25: every saved calculation is consistent with its own labels: after any
\* sequence of input changes, failing ones included, followed by a save, the
\* saved forces, utilisations and combined ratio are those of an evaluation
\* made with the bolt grade and bolt size recorded in the same entry.
C25_SavedEntryMatchesItsLabels ==
    \A i \in DOMAIN savedCalculations :
        ConsistentWithLabels(savedCalculations[i],
                             CatalogRecord(savedCalculations[i].boltGrade,
                                           savedCalculations[i].boltSize))

\* The view lists the bolts of the evaluation in the evaluation's order: as
\* many entries, each drawn at the evaluation's position shifted by the one
\* offset of the drawing, with the evaluation's shear and tension.
SameBoltsSameForces ==
    /\ DOMAIN ViewForces = Bolts
    /\ \A k \in Bolts :
          /\ NSub(ViewForces[k].x, results.boltPositions[k].x)
                = NSub(ViewForces[1].x, results.boltPositions[1].x)
          /\ NSub(ViewForces[k].y, results.boltPositions[k].y)
                = NSub(ViewForces[1].y, results.boltPositions[1].y)
          /\ ViewForces[k].shear = EffectShear(k)
          /\ ViewForces[k].tension = EffectTension(k)

\* The summary's shear is the largest shear the view shows.
SummaryShearIsLargestShown ==
    /\ \E k \in Bolts : results.shearForce = ViewForces[k].shear
    /\ \A k \in Bolts : NLe(ViewForces[k].shear.rad, results.shearForce.rad)

\* The summary's tension is the largest tension the view shows.
SummaryTensionIsLargestShown ==
    /\ \E k \in Bolts : results.axialForce = ViewForces[k].tension
    /\ \A k \in Bolts : NLe(ViewForces[k].tension, results.axialForce)

\* C26: for the same inputs with at least two bolts the pattern view lists
\* the same bolts in the same order with the same shear and tension as the
\* summary evaluation, and the summary's max shear and max tension are the
\* largest per-bolt shear and the largest per-bolt tension the view shows.
C26_ViewAndSummaryAgree ==
    Succeeded =>
        /\ SameBoltsSameForces
        /\ SummaryShearIsLargestShown
        /\ SummaryTensionIsLargestShown

\* The per-bolt part and the shear part of the agreement, without the
\* tension maximum.
ViewAndSummaryAgreeOnBoltsAndShear ==
    Succeeded => SameBoltsSameForces /\ SummaryShearIsLargestShown

\* Both failure conditions hold for the inputs: fewer than 2 bolts and a
\* (grade, size) pair the catalog lacks.
BothFail(inp) ==
    /\ ClaimedCount(inp) < 2
    /\ AbsentFromCatalog(inp.boltGrade, inp.boltSize)

\* C27: every run of the evaluation leaves one value in the error slot, none
\* or one of the two messages, and when the bolt count is below 2 and the
\* (grade, size) pair is absent from the catalog that value is the bolt-count
\* message: the bolt-count check comes before the capacity lookup.
C27_BoltCountErrorComesFirst ==
    [][pc = "effects"
          => /\ error' \in {"null", InsufficientBoltCount, UnknownBoltSpec}
             /\ BothFail(inputs) => error' = InsufficientBoltCount]_vars

\* A single bolt on a circle with the size M14 was evaluated and rejected for
\* its bolt count.
C27_Witness ==
    /\ Evaluated
    /\ evalInputs.arrangement = "circular"
    /\ BothFail(evalInputs)
    /\ error = InsufficientBoltCount

\* The constraints of the data model on an arrangement.
WithinDataModel(inp) ==
    /\ inp.rowSpacing > 0 /\ inp.colSpacing > 0 /\ inp.diameter > 0
    /\ inp.numRows >= 1 /\ inp.numCols >= 1
    /\ ClaimedCount(inp) >= 2

Positive(x) == ~IsNaN(x) /\ NSign(x) > 0

\* The divisors of one evaluation: Ibp, 2*ym*ym, 2*xm*xm and the bolt count
\* in the loop, and the three catalog values in the summary.
DivisorsArePositive(inp, res, boltProps) ==
    /\ Positive(res.ibp)
    /\ Positive(ym(inp)) /\ Positive(NMul(NMul(Num(2), ym(inp)), ym(inp)))
    /\ Positive(xm(inp)) /\ Positive(NMul(NMul(Num(2), xm(inp)), xm(inp)))
    /\ BoltCount(inp) > 0
    /\ Positive(boltProps.phiVf)
    /\ Positive(boltProps.phiNtf)
    /\ Positive(boltProps.tensileArea)

\* C28: for inputs that pass both error checks and satisfy the data-model
\* constraints (positive spacings and diameter, at least one row and one
\* column, at least 2 bolts) no divisor of the evaluation is zero: Ibp, ym,
\* xm, n, phiVf, phiNtf and tensileArea are positive, single-row and
\* single-column grids included.
C28_NoZeroDivisor ==
    (Succeeded /\ WithinDataModel(evalInputs))
        => DivisorsArePositive(evalInputs, results,
                               getBoltProperties(evalInputs.boltGrade,
                                                 evalInputs.boltSize))

\* A single-column grid was evaluated under a minor-axis moment, which is
\* divided by 2*xm*xm.
C28_Witness ==
    /\ Succeeded
    /\ WithinDataModel(evalInputs)
    /\ evalInputs.arrangement = "rectangular"
    /\ evalInputs.numCols = 1 /\ evalInputs.numRows = 3
    /\ evalInputs.mm # 0
    /\ ~IsNaN(results.axialForce)

\* The inputs with the loads the tension reads (Mb, Mm, Nt, the prying
\* allowance) replaced, and with the loads the shear reads (Vx, Vy, Tb)
\* replaced.  Two inputs of one arrangement that differ in those loads only
\* are sent to the same record.
WithoutTensionLoads(inp) ==
    [inp EXCEPT !.mb = 0, !.mm = 0, !.nt = 0, !.pryingAllowance = Num(1)]

WithoutShearLoads(inp) == [inp EXCEPT !.vx = 0, !.vy = 0, !.tb = 0]

\* The layout, the loop and the view of other inputs give every bolt the
\* shear it has in the latest evaluation and in its view, and the same max
\* shear.
SameShears(other, layout, view, otherView) ==
    /\ ~TooFewBolts(BoltCount(other))
    /\ layout.positions = results.boltPositions
    /\ layout.ibp = results.ibp
    /\ MaxShearLoop(other, layout.positions, BoltCount(other), layout.ibp,
                    Len(layout.positions)) = results.shearForce
    /\ DOMAIN otherView = DOMAIN view
    /\ \A k \in Bolts :
          /\ totalShear(other, layout.positions[k], BoltCount(other), layout.ibp)
                = EffectShear(k)
          /\ otherView[k].shear = view[k].shear

\* The same for the tensions.
SameTensions(other, layout, view, otherView) ==
    /\ ~TooFewBolts(BoltCount(other))
    /\ layout.positions = results.boltPositions
    /\ layout.ibp = results.ibp
    /\ MaxTensionLoop(other, layout.positions, BoltCount(other),
                      Len(layout.positions)) = results.axialForce
    /\ DOMAIN otherView = DOMAIN view
    /\ \A k \in Bolts :
          /\ totalAxial(other, layout.positions[k], BoltCount(other))
                = EffectTension(k)
          /\ otherView[k].tension = view[k].tension

\* C29: for a fixed arrangement every bolt's shear and the max shear do not
\* change with Mb, Mm, Nt or the prying allowance, and every bolt's tension
\* and the max tension do not change with Vx, Vy or Tb.
C29_DisjointLoadSets ==
    Succeeded =>
        \E view \in {ViewForces} :
            /\ \E layout \in {calculateBoltLayout(WithoutTensionLoads(evalInputs))} :
               \E otherView \in {calculateBoltForces(WithoutTensionLoads(evalInputs))} :
                  SameShears(WithoutTensionLoads(evalInputs), layout, view, otherView)
            /\ \E layout \in {calculateBoltLayout(WithoutShearLoads(evalInputs))} :
               \E otherView \in {calculateBoltForces(WithoutShearLoads(evalInputs))} :
                  SameTensions(WithoutShearLoads(evalInputs), layout, view, otherView)

\* All six loads act with a prying allowance above 1, the bolts carry
\* different shears and different tensions, and neither maximum is zero.
C29_Witness ==
    /\ Succeeded
    /\ evalInputs.vx # 0 /\ evalInputs.vy # 0 /\ evalInputs.tb # 0
    /\ evalInputs.mb # 0 /\ evalInputs.mm # 0 /\ evalInputs.nt # 0
    /\ evalInputs.pryingAllowance = Dec(11, 1)
    /\ \E j, k \in Bolts :
          /\ EffectShear(j) # EffectShear(k)
          /\ EffectTension(j) # EffectTension(k)
    /\ results.shearForce # MathSqrt(Zero)
    /\ ~IsZero(results.axialForce)

\* The size is one the grade offers, and the catalog has a record of the pair.
SizeIsOffered(inp) ==
    /\ Includes(getBoltSizes(inp.boltGrade), inp.boltSize)
    /\ ~IsUndefined(getBoltProperties(inp.boltGrade, inp.boltSize))

\* C30: when the grade effect finds the selected size missing from the sizes
\* of the selected grade it resets the selection to the first of them, and
\* once the effects have settled the selected size is one of the sizes of
\* the selected grade, so the evaluation that follows finds a record in the
\* catalog.
C30_SizeBelongsToGrade ==
    [][pc = "effects"
          => /\ (/\ inputs.boltGrade # effectGrade
                 /\ ~Includes(getBoltSizes(inputs.boltGrade), inputs.boltSize))
                    => /\ inputs'.boltSize = getBoltSizes(inputs.boltGrade)[1]
                       /\ pc' = "effects"
             /\ pc' = "idle"
                    => /\ SizeIsOffered(inputs')
                       /\ evalInputs' = inputs'
                       /\ error' # UnknownBoltSpec]_vars

\* The size M14, which Grade 8.8 does not offer, was replaced by M12, the
\* first size of the grade, and the evaluation that followed found a record.
C30_Witness ==
    /\ pc = "idle"
    /\ availableSizes = getBoltSizes("Grade 8.8")
    /\ evalInputs.boltGrade = "Grade 8.8" /\ evalInputs.boltSize = "M12"
    /\ inputs = evalInputs
    /\ SizeIsOffered(inputs)
    /\ error = "null"


====
